---- MODULE Spec2Model ----
(***************************************************************************)
(* Model of ai-pdf-renamer (main.go): the setup/processPDF orchestration,  *)
(* its collaborators (rasterizer, OCR, inference endpoint, console,        *)
(* filesystem) and the filename clean-up done on the model's reply.        *)
(*                                                                         *)
(* Go strings are modelled as sequences of one-character strings.          *)
(***************************************************************************)
EXTENDS Integers, Sequences, FiniteSets, TLC

(***************************************************************************)
(* Bounds of the model                                                     *)
(***************************************************************************)
\* number of runs (blocks of one repeated character) of a sanitizer input
MaxBlocks == 3
\* number of file-pattern arguments on the command line
MaxArgs == 1

(***************************************************************************)
(* Program constants                                                       *)
(***************************************************************************)
\* main.go: if len(cleanName) > 64 { cleanName = cleanName[:64] }
MaxNameLen == 64
\* extractPDFPages: maxPages := 3
maxPages == 3

\* setup: cfg.Model = "qwen2.5vl:7b"
VisionModel == "qwen2.5vl:7b"
\* README, Model Selection: the documented default of OCR mode
GemmaModel == "gemma3:1b"

(***************************************************************************)
(* Characters and string helpers                                           *)
(***************************************************************************)
LowerChars ==
    {"a","b","c","d","e","f","g","h","i","j","k","l","m",
     "n","o","p","q","r","s","t","u","v","w","x","y","z"}
UpperChars ==
    {"A","B","C","D","E","F","G","H","I","J","K","L","M",
     "N","O","P","Q","R","S","T","U","V","W","X","Y","Z"}
DigitChars == {"0","1","2","3","4","5","6","7","8","9"}

\* the complement of the character class of regexp [^a-zA-Z0-9-]
AllowedChars == LowerChars \cup UpperChars \cup DigitChars \cup {"-"}

AlnumChars == LowerChars \cup UpperChars \cup DigitChars

Rep(c, n) == [i \in 1..n |-> c]

\* strings.HasSuffix
HasSuffix(s, suf) ==
    /\ Len(s) >= Len(suf)
    /\ SubSeq(s, Len(s) - Len(suf) + 1, Len(s)) = suf

\* strings.ToLower restricted to the characters that occur in paths
LowerOf(c) ==
    CASE c = "P" -> "p"
      [] c = "D" -> "d"
      [] c = "F" -> "f"
      [] c = "A" -> "a"
      [] c = "B" -> "b"
      [] c = "Z" -> "z"
      [] OTHER -> c
ToLower(s) == [i \in 1..Len(s) |-> LowerOf(s[i])]

(***************************************************************************)
(* Clean-up of the model's reply (generateFilename, generateFilenameFast)  *)
(***************************************************************************)
\* regexp.MustCompile(`[^a-zA-Z0-9-]`).ReplaceAllString(s, "-")
ReplaceDisallowed(s) ==
    [i \in 1..Len(s) |-> IF s[i] \in AllowedChars THEN s[i] ELSE "-"]

\* regexp.MustCompile(`-+`).ReplaceAllString(s, "-"): every maximal run of
\* dashes becomes one dash (computed by halves)
RECURSIVE CollapseDashes(_)
CollapseDashes(s) ==
    IF Len(s) <= 1 THEN s
    ELSE LET mid == Len(s) \div 2
             left == CollapseDashes(SubSeq(s, 1, mid))
             right == CollapseDashes(SubSeq(s, mid + 1, Len(s)))
         IN IF left[Len(left)] = "-" /\ right[1] = "-"
            THEN left \o Tail(right)
            ELSE left \o right

\* strings.Trim(s, "-")
TrimDashes(s) ==
    LET keep == {i \in 1..Len(s) : s[i] # "-"}
    IN IF keep = {} THEN <<>>
       ELSE LET lo == CHOOSE i \in keep : \A j \in keep : i <= j
                hi == CHOOSE i \in keep : \A j \in keep : j <= i
            IN SubSeq(s, lo, hi)

\* mutant: the cut is one character short
TruncateShort(s) ==
    IF Len(s) >= MaxNameLen THEN SubSeq(s, 1, MaxNameLen - 1) ELSE s

\* if len(cleanName) > 64 { cleanName = cleanName[:64] }
Truncate(s) == IF Len(s) > MaxNameLen THEN SubSeq(s, 1, MaxNameLen) ELSE s

\* generateFilename, lines 262-272
cleanNameText(response) ==
    Truncate(TrimDashes(CollapseDashes(ReplaceDisallowed(response))))

\* mutant: the vision clean-up cuts to 64 characters before it trims dashes
cleanNameFastTruncateFirst(response) ==
    LET replaced == ReplaceDisallowed(response)
        collapsed == CollapseDashes(replaced)
        cut == IF Len(collapsed) > MaxNameLen
               THEN SubSeq(collapsed, 1, MaxNameLen) ELSE collapsed
    IN TrimDashes(cut)

\* generateFilenameFast, lines 329-339
cleanNameFast(response) ==
    LET replaced == ReplaceDisallowed(response)
        collapsed == CollapseDashes(replaced)
        trimmed == TrimDashes(collapsed)
    IN IF Len(trimmed) > MaxNameLen THEN SubSeq(trimmed, 1, MaxNameLen) ELSE trimmed

(***************************************************************************)
(* Paths, patterns and the files present when the run starts               *)
(***************************************************************************)
DotPdf == <<".", "p", "d", "f">>
DotTxt == <<".", "t", "x", "t">>

FileA == <<"a", ".", "p", "d", "f">>
FileB == <<"B", ".", "P", "D", "F">>
FileN == <<"n", ".", "t", "x", "t">>
FileC == <<"d", "/", "c", ".", "p", "d", "f">>
DirD == <<"d">>
OutDirArg == <<"o", "u", "t", "/">>

PatStar == <<"*">>
PatMissing == <<"z", ".", "p", "d", "f">>
PatBad == <<"[">>
NoVisionPrefix == <<"-", "n", "o", "v", "i", "s", "i", "o", "n", "=">>
PatNoVision == NoVisionPrefix \o <<"1">>

Patterns == {PatStar, FileC, PatMissing, PatBad, PatNoVision}

\* byte order of the characters that occur in paths (sort.Strings in Glob)
AsciiOrder ==
    <<"-", ".", "/", "0", "1", "9", "=", "A", "B", "D", "F", "P", "Z", "[",
      "a", "b", "c", "d", "e", "f", "i", "n", "o", "p", "s", "t", "u", "v",
      "x", "z">>
Rank(c) == CHOOSE i \in 1..Len(AsciiOrder) : AsciiOrder[i] = c

RECURSIVE StrLess(_, _)
StrLess(s, t) ==
    IF t = <<>> THEN FALSE
    ELSE IF s = <<>> THEN TRUE
    ELSE IF Head(s) = Head(t) THEN StrLess(Tail(s), Tail(t))
    ELSE Rank(Head(s)) < Rank(Head(t))

RECURSIVE SortStrings(_)
SortStrings(S) ==
    IF S = {} THEN <<>>
    ELSE LET m == CHOOSE x \in S : \A y \in S \ {x} : StrLess(x, y)
         IN <<m>> \o SortStrings(S \ {m})

HasPrefix(s, pre) == Len(s) >= Len(pre) /\ SubSeq(s, 1, Len(pre)) = pre

\* strings.TrimSuffix
TrimSuffix(s, suf) ==
    IF HasSuffix(s, suf) THEN SubSeq(s, 1, Len(s) - Len(suf)) ELSE s

HasSlash(s) == \E i \in 1..Len(s) : s[i] = "/"

\* filepath.Clean followed by TrimSuffix(path, "/") on the -output value
CleanDir(d) == TrimSuffix(d, <<"/">>)

\* filepath.Join(dir, name) for a clean dir and a name without separators
JoinPath(d, name) == d \o <<"/">> \o name

\* filepath.Glob: ErrBadPattern, a directory listing for "*", or an Lstat of
\* a pattern without metacharacters
GlobErr(pattern) == pattern = PatBad
Glob(pattern, files, dirset) ==
    IF pattern = PatStar
    THEN SortStrings({f \in (DOMAIN files) \cup dirset : ~HasSlash(f)})
    ELSE IF pattern \in (DOMAIN files) \cup dirset THEN <<pattern>>
    ELSE <<>>

(***************************************************************************)
(* Configuration                                                           *)
(***************************************************************************)
defaultPrompt == "defaultPrompt"

\* the zero value of Config, held by the global before setup runs
ZeroConfig ==
    [AutoRename |-> FALSE, CustomPrompt |-> "", Model |-> "",
     FastMode |-> FALSE, OutputDir |-> <<>>, Exitor |-> "nil"]

getDefaultConfig ==
    [AutoRename |-> FALSE, CustomPrompt |-> defaultPrompt,
     Model |-> VisionModel, FastMode |-> TRUE, OutputDir |-> <<>>,
     Exitor |-> "DefaultExitor"]

\* the Config values setup is called with, by main or by a test
FlagConfigs ==
    [AutoRename : BOOLEAN, CustomPrompt : {defaultPrompt},
     Model : {VisionModel, GemmaModel}, FastMode : BOOLEAN,
     OutputDir : {<<>>, OutDirArg},
     Exitor : {"DefaultExitor", "MockExitor"}]

\* a string flag that is not on the command line
FlagAbsent == "absent"

\* the flags of a command line: the bool flags that are present, the values
\* of the string flags
FlagSets ==
    [auto : BOOLEAN, prompt : {FlagAbsent}, model : {FlagAbsent, GemmaModel},
     novision : BOOLEAN, output : {<<>>, OutDirArg}]

NoFlags ==
    [auto |-> FALSE, prompt |-> FlagAbsent, model |-> FlagAbsent,
     novision |-> FALSE, output |-> <<>>]

\* flag.Bool and flag.String: the default unless the flag is given
BoolFlag(given, default) == IF given THEN TRUE ELSE default
StringFlag(given, default) == IF given = FlagAbsent THEN default ELSE given

\* mutant: FastMode is the novision switch itself
mainConfigNotInverted(f) ==
    LET defaultConfig == getDefaultConfig
    IN [AutoRename |-> BoolFlag(f.auto, defaultConfig.AutoRename),
        CustomPrompt |-> StringFlag(f.prompt, defaultConfig.CustomPrompt),
        Model |-> StringFlag(f.model, defaultConfig.Model),
        FastMode |-> BoolFlag(f.novision, FALSE),
        OutputDir |-> f.output,
        Exitor |-> "DefaultExitor"]

\* main, lines 586-618: the Config built from the parsed flags
mainConfig(f) ==
    LET defaultConfig == getDefaultConfig
        noVision == BoolFlag(f.novision, FALSE)
    IN [AutoRename |-> BoolFlag(f.auto, defaultConfig.AutoRename),
        CustomPrompt |-> StringFlag(f.prompt, defaultConfig.CustomPrompt),
        Model |-> StringFlag(f.model, defaultConfig.Model),
        FastMode |-> ~noVision,
        OutputDir |-> f.output,
        Exitor |-> "DefaultExitor"]

\* what the startup check finds on the machine
Environments ==
    {[tools |-> FALSE, service |-> TRUE, installed |-> {VisionModel, GemmaModel}],
     [tools |-> TRUE, service |-> FALSE, installed |-> {VisionModel, GemmaModel}],
     [tools |-> TRUE, service |-> TRUE, installed |-> {GemmaModel}],
     [tools |-> TRUE, service |-> TRUE, installed |-> {VisionModel, GemmaModel}]}

\* checkDependencies: "ok" or the kind of the error returned
checkDependencies(e, model) ==
    IF ~e.tools THEN "tool"
    ELSE IF ~e.service THEN "service"
    ELSE IF model \notin e.installed THEN "model"
    ELSE "ok"

\* the argument lists of at most n patterns of S, no pattern given twice
RECURSIVE ArgLists(_, _)
ArgLists(S, n) ==
    IF n = 0 THEN {<<>>}
    ELSE LET shorter == ArgLists(S, n - 1)
             given(q) == {q[i] : i \in 1..Len(q)}
         IN shorter \cup UNION {{Append(q, x) : x \in S \ given(q)} : q \in shorter}

(***************************************************************************)
(* Replies of the collaborators                                            *)
(***************************************************************************)
RespEmpty == <<>>
RespBlank == <<" ">>
RespGood == <<"a", " ", "b">>

\* outcomes of the POST to /api/generate
InferOutcomes ==
    {[kind |-> "transport", response |-> <<>>, error |-> <<>>],
     [kind |-> "unparsable", response |-> <<>>, error |-> <<>>],
     [kind |-> "reply", response |-> RespGood, error |-> <<"e">>],
     [kind |-> "reply", response |-> RespEmpty, error |-> <<>>],
     [kind |-> "reply", response |-> RespBlank, error |-> <<>>],
     [kind |-> "reply", response |-> RespGood, error |-> <<>>]}

\* what fmt.Scanf("%s", &confirm) leaves in confirm
ConsoleInputs == {<<"y">>, <<"n">>, <<"a">>, <<>>}

Texts == {<<"t">>}

(***************************************************************************)
(* Cross-platform build (dagger/main.go)                                   *)
(***************************************************************************)
Linux == <<"l", "i", "n", "u", "x">>
Darwin == <<"d", "a", "r", "w", "i", "n">>
Windows == <<"w", "i", "n", "d", "o", "w", "s">>
Amd64 == <<"a", "m", "d", "6", "4">>
Arm64 == <<"a", "r", "m", "6", "4">>

\* var BuildPlatforms
BuildPlatforms ==
    << [os |-> Linux, arch |-> Amd64],
       [os |-> Linux, arch |-> Arm64],
       [os |-> Darwin, arch |-> Amd64],
       [os |-> Darwin, arch |-> Arm64],
       [os |-> Windows, arch |-> Amd64] >>

\* "build/ai-pdf-renamer-"
OutputPrefix == <<"b", "u", "i", "l", "d", "/", "a", "i", "-", "p", "d", "f", "-", "r", "e", "n", "a", "m", "e", "r", "-">>
DotExe == <<".", "e", "x", "e">>

\* filepath.Join(dir, rel) for a clean dir other than "/" and a clean
\* relative path
JoinRel(d, rel) == d \o <<"/">> \o rel

\* absolute paths filepath.Abs("..") returns for the dagger directory
ProjectRoots == {<<"/", "p">>, <<"/", "w", "/", "q">>}

\* main, lines 102-106: the name passed to go build -o
buildOutput(platform) ==
    LET output == OutputPrefix \o platform.os \o <<"-">> \o platform.arch
    IN IF platform.os = Windows THEN output \o DotExe ELSE output

\* mutant: the export path never gets the .exe suffix
getExportPathNoExe(projectRoot, platform) ==
    JoinRel(projectRoot, OutputPrefix \o platform.os \o <<"-">> \o platform.arch)

\* getExportPath, lines 35-41
getExportPath(projectRoot, platform) ==
    LET output == OutputPrefix \o platform.os \o <<"-">> \o platform.arch
        named == IF platform.os = Windows THEN output \o DotExe ELSE output
    IN JoinRel(projectRoot, named)

\* the build before main of dagger/main.go runs
NoBuild ==
    [pc |-> "idle",
     projectRoot |-> <<>>,      \* filepath.Abs("..")
     i |-> 1,                   \* index of the loop over BuildPlatforms
     attempted |-> <<>>,        \* platforms the loop reached, in order
     outputs |-> <<>>,          \* names passed to go build -o, in order
     exports |-> <<>>,          \* paths passed to Export, in order
     results |-> <<>>,          \* TRUE: exported, FALSE: Export returned an error
     failedBuilds |-> 0,
     exitCause |-> "none",      \* what os.Exit(1) was called for
     exitCode |-> -1]           \* -1: running

(***************************************************************************)
(* State                                                                   *)
(***************************************************************************)
VARIABLES
    pc,          \* position of the run in main/setup/processPDF/fallbackToOCR
    cfg,         \* setup's parameter cfg
    config,      \* the global config
    env,         \* what checkDependencies finds
    args,        \* flag.Args()
    argIdx,      \* index of the pattern of the outer loop of setup
    matches,     \* result of filepath.Glob for the current pattern
    matchIdx,    \* index of the inner loop of setup
    fs,          \* regular files: path -> content
    dirs,        \* directories
    cur,         \* the processPDF call in progress (or the last one)
    run,         \* run-level observations: exits, reports, earlier files
    sanIn,       \* sanitizer harness: the reply text
    sanOut,      \* sanitizer harness: results computed so far
    build        \* the run of dagger/main.go

vars == <<pc, cfg, config, env, args, argIdx, matches, matchIdx, fs, dirs,
          cur, run, sanIn, sanOut, build>>

sanVars == <<sanIn, sanOut>>
buildVars == <<build>>
sysVars == <<pc, cfg, config, env, args, argIdx, matches, matchIdx, fs, dirs,
             cur, run>>

NoFile == <<>>
NoAnswer == <<"none">>
NoReply == [kind |-> "none", response |-> <<>>, error |-> <<>>]

\* the bookkeeping of one processPDF call
NewCur(f) ==
    [file |-> f,
     pagesRequested |-> <<>>,   \* extractPageAsPNG calls, in order
     images |-> <<>>,           \* pages rasterized successfully, in order
     visReqs |-> <<>>,          \* requests sent by generateFilenameFast
     txtReqs |-> <<>>,          \* requests sent by generateFilename
     ocrCalls |-> 0,            \* extractText calls
     fellBack |-> FALSE,        \* fallbackToOCR was entered
     extracted |-> FALSE,       \* extractText returned without error
     text |-> <<>>,             \* text returned by extractText
     visReply |-> NoReply,      \* outcome of the vision POST (until fallback)
     txtReply |-> NoReply,      \* outcome of the text POST
     newName |-> <<>>,
     nameFrom |-> "none",       \* "vision" or "text": the reply newName is from
     prompts |-> 0,             \* "Suggested new filename" prompts printed
     reads |-> 0,               \* fmt.Scanf calls
     answer |-> NoAnswer,       \* what Scanf read
     writes |-> 0,              \* writeOutputFile calls
     written |-> NoFile,        \* output path of a successful write
     outcome |-> "none",        \* "Renamed", "Kept" or "Failed"
     err |-> FALSE,             \* processPDF returned a non-nil error
     errReported |-> FALSE]     \* setup printed "Error processing ..."

\* what is kept of a processPDF call once setup has handled its return
Summary(c) ==
    [NewCur(c.file) EXCEPT !.outcome = c.outcome, !.err = c.err,
                           !.errReported = c.err, !.answer = c.answer,
                           !.written = c.written]

InitRun ==
    [exitCalls |-> 0,           \* Exitor.Exit invocations
     exitCodes |-> {},          \* codes passed to Exit
     exitCauses |-> {},         \* "flag", "deps", "usage"
     depErrors |-> 0,           \* dependency errors printed
     supplied |-> "none",       \* cfg.Model as passed to setup
     checkedModel |-> "none",   \* model looked up in /api/tags
     started |-> 0,             \* processPDF calls
     skipped |-> 0,             \* "Skipping non-PDF file"
     globErrors |-> 0,          \* "Error processing pattern"
     acceptAllBefore |-> FALSE, \* an earlier file was answered "a"
     failedBefore |-> FALSE,    \* an earlier file returned an error
     completed |-> FALSE,       \* "Processing complete!" was printed
     parsed |-> FALSE,          \* main built cfg from the command line
     flags |-> NoFlags]         \* the flags main parsed

InitFiles ==
    (FileA :> [id |-> "A", ocr |-> FALSE]) @@
    (FileB :> [id |-> "B", ocr |-> FALSE]) @@
    (FileN :> [id |-> "N", ocr |-> FALSE]) @@
    (FileC :> [id |-> "C", ocr |-> FALSE])

SysInit ==
    /\ pc = "main"
    /\ cfg = ZeroConfig
    /\ config = ZeroConfig
    /\ env \in Environments
    /\ args \in ArgLists(Patterns, MaxArgs)
    /\ argIdx = 1
    /\ matches = <<>>
    /\ matchIdx = 1
    /\ fs = InitFiles
    /\ dirs = {DirD}
    /\ cur = NewCur(NoFile)
    /\ run = InitRun

NoSanOut == [done |-> 0, text |-> <<>>, fast |-> <<>>, again |-> <<>>]

SanIdle ==
    /\ sanIn = <<>>
    /\ sanOut = NoSanOut

BuildIdle == build = NoBuild

Init == SysInit /\ SanIdle /\ BuildIdle

(***************************************************************************)
(* Exitor                                                                  *)
(***************************************************************************)
\* run after cfg.Exitor.Exit(code) was invoked n times for the given cause
Exited(r, cause, n) ==
    [r EXCEPT !.exitCalls = @ + n,
              !.exitCodes = IF n > 0 THEN @ \cup {1} ELSE @,
              !.exitCauses = IF n > 0 THEN @ \cup {cause} ELSE @]

\* DefaultExitor.Exit is os.Exit: nothing after the call runs.
\* MockExitor.Exit records the code and returns.
ExitReturns(c) == c.Exitor = "MockExitor"

(***************************************************************************)
(* setup                                                                   *)
(***************************************************************************)
\* mutant: the model switch is left out
EffectiveModelKept(c) == c.Model

\* mutant: the vision model is forced in every mode
EffectiveModelAlwaysVision(c) == VisionModel

\* setup, lines 530-534: the model used when vision mode is enabled
EffectiveModel(c) ==
    IF c.FastMode /\ c.Model # VisionModel THEN VisionModel ELSE c.Model

\* setup, lines 520-537: cfg after the output path clean-up and model switch
NormalizeConfig(c) ==
    [c EXCEPT !.OutputDir = IF @ # <<>> THEN CleanDir(@) ELSE @,
              !.Model = EffectiveModel(c)]

\* main, lines 586-620: parse the flags, build cfg, call setup
Main ==
    /\ pc = "main"
    /\ \E f \in FlagSets :
          /\ cfg' = mainConfig(f)
          /\ run' = [run EXCEPT !.parsed = TRUE, !.flags = f]
    /\ pc' = "setup"
    /\ UNCHANGED <<config, env, args, argIdx, matches, matchIdx, fs, dirs, cur>>
    /\ UNCHANGED <<sanVars, buildVars>>

\* a test calls setup with a Config of its own and a MockExitor
TestSetup ==
    /\ pc = "main"
    /\ cfg' \in {c \in FlagConfigs : c.Exitor = "MockExitor"}
    /\ pc' = "setup"
    /\ UNCHANGED <<config, env, args, argIdx, matches, matchIdx, fs, dirs, cur, run>>
    /\ UNCHANGED <<sanVars, buildVars>>

\* setup, lines 511-537: flag misuse check, clean-up, model switch,
\* assignment of the global
SetupConfig ==
    /\ pc = "setup"
    /\ LET misuse == {i \in 1..Len(args) : HasPrefix(args[i], NoVisionPrefix)}
       IN IF misuse # {} /\ ~ExitReturns(cfg)
          THEN /\ run' = Exited(run, "flag", 1)
               /\ pc' = "exited"
               /\ UNCHANGED <<cfg, config>>
          ELSE /\ run' = [Exited(run, "flag", Cardinality(misuse))
                           EXCEPT !.supplied = cfg.Model]
               /\ cfg' = NormalizeConfig(cfg)
               /\ config' = cfg'
               /\ pc' = "deps"
    /\ UNCHANGED <<env, args, argIdx, matches, matchIdx, fs, dirs, cur>>
    /\ UNCHANGED <<sanVars, buildVars>>

\* setup, lines 539-543
CheckDeps ==
    /\ pc = "deps"
    /\ LET res == checkDependencies(env, config.Model)
           seen == [run EXCEPT !.checkedModel =
                        IF env.tools /\ env.service THEN config.Model ELSE @]
       IN IF res = "ok"
          THEN /\ run' = seen
               /\ pc' = "args"
          ELSE /\ run' = Exited([seen EXCEPT !.depErrors = @ + 1], "deps", 1)
               /\ pc' = IF ExitReturns(cfg) THEN "args" ELSE "exited"
    /\ UNCHANGED <<cfg, config, env, args, argIdx, matches, matchIdx, fs,
                   dirs, cur>>
    /\ UNCHANGED <<sanVars, buildVars>>

\* setup, lines 545-559
CheckArgs ==
    /\ pc = "args"
    /\ IF Len(args) = 0
       THEN /\ run' = Exited(run, "usage", 1)
            /\ pc' = IF ExitReturns(cfg) THEN "pattern" ELSE "exited"
       ELSE /\ run' = run
            /\ pc' = "pattern"
    /\ argIdx' = 1
    /\ UNCHANGED <<cfg, config, env, args, matches, matchIdx, fs, dirs, cur>>
    /\ UNCHANGED <<sanVars, buildVars>>

\* setup, lines 562-567 and 583: next pattern of the outer loop, or the end
NextPattern ==
    /\ pc = "pattern"
    /\ IF argIdx > Len(args)
       THEN /\ pc' = "complete"
            /\ run' = [run EXCEPT !.completed = TRUE]
            /\ UNCHANGED <<argIdx, matches, matchIdx>>
       ELSE IF GlobErr(args[argIdx])
       THEN /\ pc' = "pattern"
            /\ run' = [run EXCEPT !.globErrors = @ + 1]
            /\ argIdx' = argIdx + 1
            /\ UNCHANGED <<matches, matchIdx>>
       ELSE /\ pc' = "match"
            /\ matches' = Glob(args[argIdx], fs, dirs)
            /\ matchIdx' = 1
            /\ UNCHANGED <<argIdx, run>>
    /\ UNCHANGED <<cfg, config, env, args, fs, dirs, cur>>
    /\ UNCHANGED <<sanVars, buildVars>>

\* mutant: any name with an extension counts as a PDF
IsPdfNameAnyExtension(f) == \E i \in 1..Len(f) : f[i] = "."

\* setup, line 571
IsPdfName(f) == HasSuffix(ToLower(f), DotPdf)

\* mutant: processPDF takes the vision branch whatever FastMode is
NextMatchAlwaysVision ==
    /\ pc = "match"
    /\ IF matchIdx > Len(matches)
       THEN /\ pc' = "pattern"
            /\ argIdx' = argIdx + 1
            /\ UNCHANGED <<matchIdx, cur, run>>
       ELSE IF ~IsPdfName(matches[matchIdx])
       THEN /\ pc' = "match"
            /\ matchIdx' = matchIdx + 1
            /\ run' = [run EXCEPT !.skipped = @ + 1]
            /\ UNCHANGED <<argIdx, cur>>
       ELSE /\ pc' = "raster"
            /\ cur' = NewCur(matches[matchIdx])
            /\ run' = [run EXCEPT
                         !.started = @ + 1,
                         !.acceptAllBefore = @ \/ cur.answer = <<"a">>,
                         !.failedBefore = @ \/ cur.err]
            /\ UNCHANGED <<argIdx, matchIdx>>
    /\ UNCHANGED <<cfg, config, env, args, matches, fs, dirs>>
    /\ UNCHANGED <<sanVars, buildVars>>

\* setup, lines 569-576 and processPDF, lines 443-445: next match of the
\* inner loop; a PDF enters processPDF on the branch config.FastMode selects
NextMatch ==
    /\ pc = "match"
    /\ IF matchIdx > Len(matches)
       THEN /\ pc' = "pattern"
            /\ argIdx' = argIdx + 1
            /\ UNCHANGED <<matchIdx, cur, run>>
       ELSE IF ~IsPdfName(matches[matchIdx])
       THEN /\ pc' = "match"
            /\ matchIdx' = matchIdx + 1
            /\ run' = [run EXCEPT !.skipped = @ + 1]
            /\ UNCHANGED <<argIdx, cur>>
       ELSE /\ pc' = IF config.FastMode THEN "raster" ELSE "ocrExtract"
            /\ cur' = NewCur(matches[matchIdx])
            /\ run' = [run EXCEPT
                         !.started = @ + 1,
                         !.acceptAllBefore = @ \/ cur.answer = <<"a">>,
                         !.failedBefore = @ \/ cur.err]
            /\ UNCHANGED <<argIdx, matchIdx>>
    /\ UNCHANGED <<cfg, config, env, args, matches, fs, dirs>>
    /\ UNCHANGED <<sanVars, buildVars>>

\* mutant: an error returned by processPDF ends the process with Exit(1)
ReturnExitOnError ==
    /\ pc = "return"
    /\ cur' = Summary(cur)
    /\ IF cur.err
       THEN /\ run' = Exited(run, "file", 1)
            /\ pc' = IF ExitReturns(cfg) THEN "match" ELSE "exited"
       ELSE /\ run' = run
            /\ pc' = "match"
    /\ matchIdx' = matchIdx + 1
    /\ UNCHANGED <<cfg, config, env, args, argIdx, matches, fs, dirs>>
    /\ UNCHANGED <<sanVars, buildVars>>

\* mutant: an error of processPDF leaves the loop over the matches (break)
ReturnBreakOnError ==
    /\ pc = "return"
    /\ cur' = Summary(cur)
    /\ IF cur.err
       THEN /\ pc' = "pattern"
            /\ argIdx' = argIdx + 1
            /\ UNCHANGED matchIdx
       ELSE /\ pc' = "match"
            /\ matchIdx' = matchIdx + 1
            /\ UNCHANGED argIdx
    /\ UNCHANGED <<cfg, config, env, args, matches, fs, dirs, run>>
    /\ UNCHANGED <<sanVars, buildVars>>

\* mutant: a failed file switches automatic renaming off again
ReturnResetsAuto ==
    /\ pc = "return"
    /\ cur' = Summary(cur)
    /\ matchIdx' = matchIdx + 1
    /\ pc' = "match"
    /\ config' = IF cur.err THEN [config EXCEPT !.AutoRename = FALSE] ELSE config
    /\ UNCHANGED <<cfg, env, args, argIdx, matches, fs, dirs, run>>
    /\ UNCHANGED <<sanVars, buildVars>>

\* mutant: a file that failed is processed again until it succeeds
ReturnRetryOnError ==
    /\ pc = "return"
    /\ IF cur.err
       THEN /\ cur' = NewCur(cur.file)
            /\ pc' = IF config.FastMode THEN "raster" ELSE "ocrExtract"
            /\ UNCHANGED matchIdx
       ELSE /\ cur' = Summary(cur)
            /\ pc' = "match"
            /\ matchIdx' = matchIdx + 1
    /\ UNCHANGED <<cfg, config, env, args, argIdx, matches, fs, dirs, run>>
    /\ UNCHANGED <<sanVars, buildVars>>

\* setup, lines 576-579: processPDF returned
Return ==
    /\ pc = "return"
    /\ cur' = Summary(cur)
    /\ matchIdx' = matchIdx + 1
    /\ pc' = "match"
    /\ UNCHANGED <<cfg, config, env, args, argIdx, matches, fs, dirs, run>>
    /\ UNCHANGED <<sanVars, buildVars>>

(***************************************************************************)
(* Inference client                                                        *)
(***************************************************************************)
\* generateFilename, lines 224-230: the request body (no images key)
TextRequest(c, text) ==
    [model |-> c.Model,
     prompt |-> [template |-> c.CustomPrompt, tail |-> "Text", text |-> text],
     images |-> <<>>]

\* mutant: the images are sent last page first
VisionRequestReversed(c, images) ==
    [model |-> c.Model,
     prompt |-> [template |-> c.CustomPrompt, tail |-> "Analyze", text |-> <<>>],
     images |-> [i \in 1..Len(images) |-> images[Len(images) + 1 - i]]]

\* generateFilenameFast, lines 284-301: the request body
VisionRequest(c, images) ==
    [model |-> c.Model,
     prompt |-> [template |-> c.CustomPrompt, tail |-> "Analyze", text |-> <<>>],
     images |-> images]

\* mutant: the error field of the reply is not looked at
generateFilenameIgnoresError(o) ==
    IF o.kind # "reply" THEN [err |-> TRUE, name |-> <<>>]
    ELSE IF o.response = <<>> THEN [err |-> TRUE, name |-> <<>>]
    ELSE [err |-> FALSE, name |-> cleanNameText(o.response)]

\* generateFilename, lines 238-272: result for outcome o of the POST
generateFilename(o) ==
    IF o.kind # "reply" THEN [err |-> TRUE, name |-> <<>>]
    ELSE IF o.error # <<>> THEN [err |-> TRUE, name |-> <<>>]
    ELSE IF o.response = <<>> THEN [err |-> TRUE, name |-> <<>>]
    ELSE [err |-> FALSE, name |-> cleanNameText(o.response)]

\* mutant: the vision client rejects an empty response as the text client does
generateFilenameFastChecksEmpty(images, o) ==
    IF Len(images) = 0 THEN [err |-> TRUE, name |-> <<>>]
    ELSE IF o.kind # "reply" THEN [err |-> TRUE, name |-> <<>>]
    ELSE IF o.error # <<>> THEN [err |-> TRUE, name |-> <<>>]
    ELSE IF o.response = <<>> THEN [err |-> TRUE, name |-> <<>>]
    ELSE [err |-> FALSE, name |-> cleanNameFast(o.response)]

\* generateFilenameFast, lines 280-282 and 309-339
generateFilenameFast(images, o) ==
    IF Len(images) = 0 THEN [err |-> TRUE, name |-> <<>>]
    ELSE IF o.kind # "reply" THEN [err |-> TRUE, name |-> <<>>]
    ELSE IF o.error # <<>> THEN [err |-> TRUE, name |-> <<>>]
    ELSE [err |-> FALSE, name |-> cleanNameFast(o.response)]

(***************************************************************************)
(* processPDF, vision branch                                               *)
(***************************************************************************)
Failed(c) == [c EXCEPT !.outcome = "Failed", !.err = TRUE]
Kept(c) == [c EXCEPT !.outcome = "Kept", !.err = FALSE]

\* mutant: a failed page is skipped (continue) instead of ending the loop
RasterizeContinue ==
    /\ pc = "raster"
    /\ LET page == Len(cur.pagesRequested) + 1
           asked == [cur EXCEPT !.pagesRequested = Append(@, page)]
           last == page + 1 > maxPages
       IN \E ok \in BOOLEAN :
            LET got == IF ok THEN [asked EXCEPT !.images = Append(@, page)]
                       ELSE asked
            IN IF ~last
               THEN /\ cur' = got
                    /\ pc' = "raster"
               ELSE IF Len(got.images) = 0
               THEN /\ cur' = [got EXCEPT !.fellBack = TRUE]
                    /\ pc' = "fbExtract"
               ELSE /\ cur' = got
                    /\ pc' = "visInfer"
    /\ UNCHANGED <<cfg, config, env, args, argIdx, matches, matchIdx, fs,
                   dirs, run>>
    /\ UNCHANGED <<sanVars, buildVars>>

\* mutant: a page that cannot be rasterized is an error of extractPDFPages
RasterizeStrict ==
    /\ pc = "raster"
    /\ LET page == Len(cur.pagesRequested) + 1
           asked == [cur EXCEPT !.pagesRequested = Append(@, page)]
       IN \E ok \in BOOLEAN :
            IF ok
            THEN /\ cur' = [asked EXCEPT !.images = Append(@, page)]
                 /\ pc' = IF page + 1 <= maxPages THEN "raster" ELSE "visInfer"
            ELSE /\ cur' = [asked EXCEPT !.fellBack = TRUE]
                 /\ pc' = "fbExtract"
    /\ UNCHANGED <<cfg, config, env, args, argIdx, matches, matchIdx, fs,
                   dirs, run>>
    /\ UNCHANGED <<sanVars, buildVars>>

\* extractPDFPages, lines 203-221, one iteration of the loop, and
\* processPDF, lines 447-451
Rasterize ==
    /\ pc = "raster"
    /\ LET page == Len(cur.pagesRequested) + 1
           asked == [cur EXCEPT !.pagesRequested = Append(@, page)]
       IN \E ok \in BOOLEAN :
            IF ok
            THEN /\ cur' = [asked EXCEPT !.images = Append(@, page)]
                 /\ pc' = IF page + 1 <= maxPages THEN "raster" ELSE "visInfer"
            ELSE IF Len(cur.images) = 0
            THEN /\ cur' = [asked EXCEPT !.fellBack = TRUE]
                 /\ pc' = "fbExtract"
            ELSE /\ cur' = asked
                 /\ pc' = "visInfer"
    /\ UNCHANGED <<cfg, config, env, args, argIdx, matches, matchIdx, fs,
                   dirs, run>>
    /\ UNCHANGED <<sanVars, buildVars>>

\* mutant: a failed vision inference is returned as the file's error
VisionInferNoFallback ==
    /\ pc = "visInfer"
    /\ \E o \in InferOutcomes :
         LET res == generateFilenameFast(cur.images, o)
             sent == [cur EXCEPT !.visReqs =
                         Append(@, VisionRequest(config, cur.images)),
                                 !.visReply = o]
         IN IF res.err
            THEN /\ cur' = Failed(sent)
                 /\ pc' = "return"
            ELSE /\ cur' = [sent EXCEPT !.newName = res.name,
                                        !.nameFrom = "vision"]
                 /\ pc' = "visConfirm"
    /\ UNCHANGED <<cfg, config, env, args, argIdx, matches, matchIdx, fs,
                   dirs, run>>
    /\ UNCHANGED <<sanVars, buildVars>>

\* mutant: the vision branch runs ocrmypdf on the file before the request
VisionInferAfterOcr ==
    /\ pc = "visInfer"
    /\ fs' = [fs EXCEPT ![cur.file].ocr = TRUE]
    /\ \E o \in InferOutcomes :
         LET res == generateFilenameFast(cur.images, o)
             sent == [cur EXCEPT !.visReqs =
                         Append(@, VisionRequest(config, cur.images)),
                                 !.visReply = o]
         IN IF res.err
            THEN /\ cur' = [sent EXCEPT !.fellBack = TRUE]
                 /\ pc' = "fbExtract"
            ELSE /\ cur' = [sent EXCEPT !.newName = res.name,
                                        !.nameFrom = "vision"]
                 /\ pc' = "visConfirm"
    /\ UNCHANGED <<cfg, config, env, args, argIdx, matches, matchIdx, dirs, run>>
    /\ UNCHANGED <<sanVars, buildVars>>

\* processPDF, lines 452-458, with generateFilenameFast
VisionInfer ==
    /\ pc = "visInfer"
    /\ \E o \in InferOutcomes :
         LET res == generateFilenameFast(cur.images, o)
             sent == [cur EXCEPT !.visReqs =
                         Append(@, VisionRequest(config, cur.images)),
                                 !.visReply = o]
         IN IF res.err
            THEN /\ cur' = [sent EXCEPT !.fellBack = TRUE]
                 /\ pc' = "fbExtract"
            ELSE /\ cur' = [sent EXCEPT !.newName = res.name,
                                        !.nameFrom = "vision"]
                 /\ pc' = "visConfirm"
    /\ UNCHANGED <<cfg, config, env, args, argIdx, matches, matchIdx, fs,
                   dirs, run>>
    /\ UNCHANGED <<sanVars, buildVars>>

\* mutant: "a" renames the file but does not set config.AutoRename
ConfirmVisionNoPromote ==
    /\ pc = "visConfirm"
    /\ IF ~config.AutoRename
       THEN \E confirm \in ConsoleInputs :
              LET asked == [cur EXCEPT !.prompts = @ + 1, !.reads = @ + 1,
                                       !.answer = confirm]
              IN IF confirm # <<"a">> /\ confirm # <<"y">>
                 THEN /\ cur' = Kept(asked)
                      /\ pc' = "return"
                 ELSE /\ cur' = asked
                      /\ pc' = "write"
       ELSE /\ pc' = "write"
            /\ UNCHANGED cur
    /\ UNCHANGED <<cfg, config, env, args, argIdx, matches, matchIdx, fs,
                   dirs, run>>
    /\ UNCHANGED <<sanVars, buildVars>>

\* mutant: an empty answer is asked for once more
ConfirmVisionAsksAgain ==
    /\ pc = "visConfirm"
    /\ IF ~config.AutoRename
       THEN \E confirm \in ConsoleInputs :
              LET asked == [cur EXCEPT !.prompts = @ + 1, !.reads = @ + 1,
                                       !.answer = confirm]
              IN IF confirm = <<"a">>
                 THEN /\ config' = [config EXCEPT !.AutoRename = TRUE]
                      /\ cur' = asked
                      /\ pc' = "write"
                 ELSE IF confirm = <<>> /\ cur.reads = 0
                 THEN /\ config' = config
                      /\ cur' = asked
                      /\ pc' = "visConfirm"
                 ELSE IF confirm # <<"y">>
                 THEN /\ config' = config
                      /\ cur' = Kept(asked)
                      /\ pc' = "return"
                 ELSE /\ config' = config
                      /\ cur' = asked
                      /\ pc' = "write"
       ELSE /\ pc' = "write"
            /\ UNCHANGED <<config, cur>>
    /\ UNCHANGED <<cfg, env, args, argIdx, matches, matchIdx, fs, dirs, run>>
    /\ UNCHANGED <<sanVars, buildVars>>

\* processPDF, lines 459-473
ConfirmVision ==
    /\ pc = "visConfirm"
    /\ IF ~config.AutoRename
       THEN \E confirm \in ConsoleInputs :
              LET asked == [cur EXCEPT !.prompts = @ + 1, !.reads = @ + 1,
                                       !.answer = confirm]
              IN IF confirm = <<"a">>
                 THEN /\ config' = [config EXCEPT !.AutoRename = TRUE]
                      /\ cur' = asked
                      /\ pc' = "write"
                 ELSE IF confirm # <<"y">>
                 THEN /\ config' = config
                      /\ cur' = Kept(asked)
                      /\ pc' = "return"
                 ELSE /\ config' = config
                      /\ cur' = asked
                      /\ pc' = "write"
       ELSE /\ pc' = "write"
            /\ UNCHANGED <<config, cur>>
    /\ UNCHANGED <<cfg, env, args, argIdx, matches, matchIdx, fs, dirs, run>>
    /\ UNCHANGED <<sanVars, buildVars>>

(***************************************************************************)
(* writeOutputFile                                                         *)
(***************************************************************************)
\* writeOutputFile, lines 387-394
OutputPath(c, newName) ==
    LET outputName == newName \o DotPdf
    IN IF c.OutputDir # <<>> THEN JoinPath(c.OutputDir, outputName)
       ELSE outputName

WriteResults == {"mkdirFailed", "readFailed", "writeFailed", "ok"}

\* writeOutputFile, lines 386-406, and the return of its error by the caller
WriteOutput ==
    /\ pc = "write"
    /\ \E res \in WriteResults :
         /\ res = "mkdirFailed" => config.OutputDir # <<>>
         /\ LET outputPath == OutputPath(config, cur.newName)
                tried == [cur EXCEPT !.writes = @ + 1]
                made == IF config.OutputDir # <<>> /\ res # "mkdirFailed"
                        THEN dirs \cup {config.OutputDir} ELSE dirs
            IN /\ dirs' = made
               /\ IF res = "ok"
                  THEN /\ fs' = [p \in (DOMAIN fs) \cup {outputPath} |->
                                   IF p = outputPath THEN fs[cur.file]
                                   ELSE fs[p]]
                       /\ cur' = [tried EXCEPT !.outcome = "Renamed",
                                               !.written = outputPath]
                  ELSE /\ fs' = fs
                       /\ cur' = Failed(tried)
    /\ pc' = "return"
    /\ UNCHANGED <<cfg, config, env, args, argIdx, matches, matchIdx, run>>
    /\ UNCHANGED <<sanVars, buildVars>>

(***************************************************************************)
(* extractText                                                             *)
(***************************************************************************)
ExtractResults ==
    {[kind |-> "ocrFailed", text |-> <<>>],
     [kind |-> "noSidecar", text |-> <<>>]} \cup
    {[kind |-> "ok", text |-> t] : t \in Texts}

\* extractText, line 113
SidecarPath(pdfFile) == TrimSuffix(pdfFile, DotPdf) \o DotTxt

\* mutant: ocrmypdf leaves its input as it is
FilesAfterExtractNoRewrite(files, pdfFile, r) ==
    IF r.kind # "ok" THEN files
    ELSE [p \in (DOMAIN files) \ {SidecarPath(pdfFile)} |-> files[p]]

\* extractText, lines 112-137: the files after the call. ocrmypdf rewrites
\* pdfFile in place when it succeeds; the sidecar is read and removed.
FilesAfterExtract(files, pdfFile, r) ==
    IF r.kind = "ocrFailed" THEN files
    ELSE LET rewritten == [files EXCEPT ![pdfFile].ocr = TRUE]
         IN IF r.kind = "noSidecar" THEN rewritten
            ELSE [p \in (DOMAIN rewritten) \ {SidecarPath(pdfFile)} |->
                    rewritten[p]]

(***************************************************************************)
(* processPDF, OCR-only branch                                             *)
(***************************************************************************)
\* processPDF, lines 478-483
ExtractOCR ==
    /\ pc = "ocrExtract"
    /\ \E r \in ExtractResults :
         LET called == [cur EXCEPT !.ocrCalls = @ + 1]
         IN /\ fs' = FilesAfterExtract(fs, cur.file, r)
            /\ IF r.kind # "ok"
               THEN /\ cur' = Failed(called)
                    /\ pc' = "return"
               ELSE /\ cur' = [called EXCEPT !.text = r.text,
                                           !.extracted = TRUE]
                    /\ pc' = "ocrInfer"
    /\ UNCHANGED <<cfg, config, env, args, argIdx, matches, matchIdx, dirs,
                   run>>
    /\ UNCHANGED <<sanVars, buildVars>>

\* processPDF, lines 484-489, with generateFilename
InferOCR ==
    /\ pc = "ocrInfer"
    /\ \E o \in InferOutcomes :
         LET res == generateFilename(o)
             sent == [cur EXCEPT !.txtReqs =
                         Append(@, TextRequest(config, cur.text)),
                                 !.txtReply = o]
         IN IF res.err
            THEN /\ cur' = Failed(sent)
                 /\ pc' = "return"
            ELSE /\ cur' = [sent EXCEPT !.newName = res.name,
                                        !.nameFrom = "text"]
                 /\ pc' = "ocrConfirm"
    /\ UNCHANGED <<cfg, config, env, args, argIdx, matches, matchIdx, fs,
                   dirs, run>>
    /\ UNCHANGED <<sanVars, buildVars>>

\* mutant: only "n" declines, any other input is taken as consent
ConfirmOCRDeclineOnlyOnN ==
    /\ pc = "ocrConfirm"
    /\ IF ~config.AutoRename
       THEN \E confirm \in ConsoleInputs :
              LET asked == [cur EXCEPT !.prompts = @ + 1, !.reads = @ + 1,
                                       !.answer = confirm]
              IN IF confirm = <<"a">>
                 THEN /\ config' = [config EXCEPT !.AutoRename = TRUE]
                      /\ cur' = asked
                      /\ pc' = "write"
                 ELSE IF confirm = <<"n">>
                 THEN /\ config' = config
                      /\ cur' = Kept(asked)
                      /\ pc' = "return"
                 ELSE /\ config' = config
                      /\ cur' = asked
                      /\ pc' = "write"
       ELSE /\ pc' = "write"
            /\ UNCHANGED <<config, cur>>
    /\ UNCHANGED <<cfg, env, args, argIdx, matches, matchIdx, fs, dirs, run>>
    /\ UNCHANGED <<sanVars, buildVars>>

\* processPDF, lines 490-504
ConfirmOCR ==
    /\ pc = "ocrConfirm"
    /\ IF ~config.AutoRename
       THEN \E confirm \in ConsoleInputs :
              LET asked == [cur EXCEPT !.prompts = @ + 1, !.reads = @ + 1,
                                       !.answer = confirm]
              IN IF confirm = <<"a">>
                 THEN /\ config' = [config EXCEPT !.AutoRename = TRUE]
                      /\ cur' = asked
                      /\ pc' = "write"
                 ELSE IF confirm # <<"y">>
                 THEN /\ config' = config
                      /\ cur' = Kept(asked)
                      /\ pc' = "return"
                 ELSE /\ config' = config
                      /\ cur' = asked
                      /\ pc' = "write"
       ELSE /\ pc' = "write"
            /\ UNCHANGED <<config, cur>>
    /\ UNCHANGED <<cfg, env, args, argIdx, matches, matchIdx, fs, dirs, run>>
    /\ UNCHANGED <<sanVars, buildVars>>

(***************************************************************************)
(* fallbackToOCR                                                           *)
(***************************************************************************)
\* mutant: the error of extractText is printed but not returned
ExtractFallbackNoReturn ==
    /\ pc = "fbExtract"
    /\ \E r \in ExtractResults :
         LET called == [cur EXCEPT !.ocrCalls = @ + 1, !.visReply = NoReply]
         IN /\ fs' = FilesAfterExtract(fs, cur.file, r)
            /\ cur' = [called EXCEPT !.text = r.text,
                                     !.extracted = (r.kind = "ok")]
            /\ pc' = "fbInfer"
    /\ UNCHANGED <<cfg, config, env, args, argIdx, matches, matchIdx, dirs,
                   run>>
    /\ UNCHANGED <<sanVars, buildVars>>

\* fallbackToOCR, lines 410-416. fallbackToOCR receives the path only: the
\* reply of the failed vision attempt is dropped from the bookkeeping here.
ExtractFallback ==
    /\ pc = "fbExtract"
    /\ \E r \in ExtractResults :
         LET called == [cur EXCEPT !.ocrCalls = @ + 1, !.visReply = NoReply]
         IN /\ fs' = FilesAfterExtract(fs, cur.file, r)
            /\ IF r.kind # "ok"
               THEN /\ cur' = Failed(called)
                    /\ pc' = "return"
               ELSE /\ cur' = [called EXCEPT !.text = r.text,
                                           !.extracted = TRUE]
                    /\ pc' = "fbInfer"
    /\ UNCHANGED <<cfg, config, env, args, argIdx, matches, matchIdx, dirs,
                   run>>
    /\ UNCHANGED <<sanVars, buildVars>>

\* mutant: a failed text request of the fallback is sent a second time
InferFallbackRetry ==
    /\ pc = "fbInfer"
    /\ \E o \in InferOutcomes :
         LET res == generateFilename(o)
             sent == [cur EXCEPT !.txtReqs =
                         Append(@, TextRequest(config, cur.text)),
                                 !.txtReply = o]
         IN IF res.err /\ cur.txtReqs = <<>>
            THEN /\ cur' = sent
                 /\ pc' = "fbInfer"
            ELSE IF res.err
            THEN /\ cur' = Failed(sent)
                 /\ pc' = "return"
            ELSE /\ cur' = [sent EXCEPT !.newName = res.name,
                                        !.nameFrom = "text"]
                 /\ pc' = "fbConfirm"
    /\ UNCHANGED <<cfg, config, env, args, argIdx, matches, matchIdx, fs,
                   dirs, run>>
    /\ UNCHANGED <<sanVars, buildVars>>

\* fallbackToOCR, lines 417-422, with generateFilename
InferFallback ==
    /\ pc = "fbInfer"
    /\ \E o \in InferOutcomes :
         LET res == generateFilename(o)
             sent == [cur EXCEPT !.txtReqs =
                         Append(@, TextRequest(config, cur.text)),
                                 !.txtReply = o]
         IN IF res.err
            THEN /\ cur' = Failed(sent)
                 /\ pc' = "return"
            ELSE /\ cur' = [sent EXCEPT !.newName = res.name,
                                        !.nameFrom = "text"]
                 /\ pc' = "fbConfirm"
    /\ UNCHANGED <<cfg, config, env, args, argIdx, matches, matchIdx, fs,
                   dirs, run>>
    /\ UNCHANGED <<sanVars, buildVars>>

\* mutant: the fallback asks for confirmation whatever AutoRename is
ConfirmFallbackAlwaysAsk ==
    /\ pc = "fbConfirm"
    /\ IF TRUE
       THEN \E confirm \in ConsoleInputs :
              LET asked == [cur EXCEPT !.prompts = @ + 1, !.reads = @ + 1,
                                       !.answer = confirm]
              IN IF confirm = <<"a">>
                 THEN /\ config' = [config EXCEPT !.AutoRename = TRUE]
                      /\ cur' = asked
                      /\ pc' = "write"
                 ELSE IF confirm # <<"y">>
                 THEN /\ config' = config
                      /\ cur' = Kept(asked)
                      /\ pc' = "return"
                 ELSE /\ config' = config
                      /\ cur' = asked
                      /\ pc' = "write"
       ELSE /\ pc' = "write"
            /\ UNCHANGED <<config, cur>>
    /\ UNCHANGED <<cfg, env, args, argIdx, matches, matchIdx, fs, dirs, run>>
    /\ UNCHANGED <<sanVars, buildVars>>

\* mutant: "a" in the fallback sets AutoRename but leaves the current file
ConfirmFallbackAcceptAllNoWrite ==
    /\ pc = "fbConfirm"
    /\ IF ~config.AutoRename
       THEN \E confirm \in ConsoleInputs :
              LET asked == [cur EXCEPT !.prompts = @ + 1, !.reads = @ + 1,
                                       !.answer = confirm]
              IN IF confirm = <<"a">>
                 THEN /\ config' = [config EXCEPT !.AutoRename = TRUE]
                      /\ cur' = Kept(asked)
                      /\ pc' = "return"
                 ELSE IF confirm # <<"y">>
                 THEN /\ config' = config
                      /\ cur' = Kept(asked)
                      /\ pc' = "return"
                 ELSE /\ config' = config
                      /\ cur' = asked
                      /\ pc' = "write"
       ELSE /\ pc' = "write"
            /\ UNCHANGED <<config, cur>>
    /\ UNCHANGED <<cfg, env, args, argIdx, matches, matchIdx, fs, dirs, run>>
    /\ UNCHANGED <<sanVars, buildVars>>

\* fallbackToOCR, lines 423-437
ConfirmFallback ==
    /\ pc = "fbConfirm"
    /\ IF ~config.AutoRename
       THEN \E confirm \in ConsoleInputs :
              LET asked == [cur EXCEPT !.prompts = @ + 1, !.reads = @ + 1,
                                       !.answer = confirm]
              IN IF confirm = <<"a">>
                 THEN /\ config' = [config EXCEPT !.AutoRename = TRUE]
                      /\ cur' = asked
                      /\ pc' = "write"
                 ELSE IF confirm # <<"y">>
                 THEN /\ config' = config
                      /\ cur' = Kept(asked)
                      /\ pc' = "return"
                 ELSE /\ config' = config
                      /\ cur' = asked
                      /\ pc' = "write"
       ELSE /\ pc' = "write"
            /\ UNCHANGED <<config, cur>>
    /\ UNCHANGED <<cfg, env, args, argIdx, matches, matchIdx, fs, dirs, run>>
    /\ UNCHANGED <<sanVars, buildVars>>

(***************************************************************************)
(* The run                                                                 *)
(***************************************************************************)
Next ==
    \/ Main
    \/ TestSetup
    \/ SetupConfig
    \/ CheckDeps
    \/ CheckArgs
    \/ NextPattern
    \/ NextMatch
    \/ Return
    \/ Rasterize
    \/ VisionInfer
    \/ ConfirmVision
    \/ WriteOutput
    \/ ExtractOCR
    \/ InferOCR
    \/ ConfirmOCR
    \/ ExtractFallback
    \/ InferFallback
    \/ ConfirmFallback

Spec == Init /\ [][Next]_vars

\* the program is one sequential thread: when every collaborator call and
\* console read returns, the step the run is at is eventually taken
FairSpec == Spec /\ WF_vars(Next)

(***************************************************************************)
(* The clean-up on its own: replies drawn from runs of characters          *)
(***************************************************************************)
SanChars == {"a", "9", "-", "#"}
RunLens == {1, MaxNameLen - 1, MaxNameLen}
SanBlocks == {Rep(c, n) : c \in SanChars, n \in RunLens}

RECURSIVE BlockStrings(_)
BlockStrings(n) ==
    IF n = 0 THEN {<<>>}
    ELSE LET shorter == BlockStrings(n - 1)
         IN shorter \cup {q \o b : q \in shorter, b \in SanBlocks}

\* "  Invoice #2024/05: ACME   Corp!!  "
InvoiceReply ==
    <<" ", " ", "I", "n", "v", "o", "i", "c", "e", " ", "#", "2", "0", "2",
      "4", "/", "0", "5", ":", " ", "A", "C", "M", "E", " ", " ", " ", "C",
      "o", "r", "p", "!", "!", " ", " ">>

SanInputs == BlockStrings(MaxBlocks) \cup {InvoiceReply}

\* the run is not started: only the clean-up is exercised
SysIdle ==
    /\ pc = "idle"
    /\ cfg = getDefaultConfig
    /\ config = ZeroConfig
    /\ env \in {e \in Environments : e.tools /\ e.service /\ VisionModel \in e.installed}
    /\ args = <<>>
    /\ argIdx = 1
    /\ matches = <<>>
    /\ matchIdx = 1
    /\ fs = InitFiles
    /\ dirs = {DirD}
    /\ cur = NewCur(NoFile)
    /\ run = InitRun

SanInit ==
    /\ SysIdle
    /\ BuildIdle
    /\ sanIn \in SanInputs
    /\ sanOut = NoSanOut

\* generateFilename's clean-up applied to the reply
SanText ==
    /\ sanOut.done = 0
    /\ sanOut' = [sanOut EXCEPT !.done = 1, !.text = cleanNameText(sanIn)]
    /\ UNCHANGED sanIn
    /\ UNCHANGED sysVars
    /\ UNCHANGED buildVars

\* generateFilenameFast's clean-up applied to the same reply
SanFast ==
    /\ sanOut.done = 1
    /\ sanOut' = [sanOut EXCEPT !.done = 2, !.fast = cleanNameFast(sanIn)]
    /\ UNCHANGED sanIn
    /\ UNCHANGED sysVars
    /\ UNCHANGED buildVars

\* the clean-up applied to its own output
SanAgain ==
    /\ sanOut.done = 2
    /\ sanOut' = [sanOut EXCEPT !.done = 3, !.again = cleanNameText(sanOut.text)]
    /\ UNCHANGED sanIn
    /\ UNCHANGED sysVars
    /\ UNCHANGED buildVars

SanNext == SanText \/ SanFast \/ SanAgain

SanSpec == SanInit /\ [][SanNext]_vars

(***************************************************************************)
(* The build: main of dagger/main.go                                       *)
(***************************************************************************)
BuildInit ==
    /\ SysIdle
    /\ SanIdle
    /\ build = [NoBuild EXCEPT !.pc = "connect"]

\* os.Exit(1) after the message for the given cause
BuildExit(b, cause) ==
    [b EXCEPT !.pc = "exited", !.exitCause = cause, !.exitCode = 1]

\* main, lines 50-57: dagger.Connect
Connect ==
    /\ build.pc = "connect"
    /\ \E ok \in BOOLEAN :
          build' = IF ok THEN [build EXCEPT !.pc = "abs"]
                   ELSE BuildExit(build, "connect")
    /\ UNCHANGED <<sysVars, sanVars>>

\* main, lines 60-65: filepath.Abs("..")
ResolveRoot ==
    /\ build.pc = "abs"
    /\ \/ \E root \in ProjectRoots :
             build' = [build EXCEPT !.pc = "outdir", !.projectRoot = root]
       \/ build' = BuildExit(build, "abs")
    /\ UNCHANGED <<sysVars, sanVars>>

\* main, lines 78-87: getOutputDir and os.MkdirAll
MakeOutputDir ==
    /\ build.pc = "outdir"
    /\ \E res \in {"absFailed", "mkdirFailed", "ok"} :
          build' = IF res = "ok" THEN [build EXCEPT !.pc = "loop"]
                   ELSE BuildExit(build, "outdir")
    /\ UNCHANGED <<sysVars, sanVars>>

\* mutant: the first failed export ends the loop
BuildPlatformStopOnFailure ==
    /\ build.pc = "loop"
    /\ build.i <= Len(BuildPlatforms)
    /\ LET platform == BuildPlatforms[build.i]
           output == buildOutput(platform)
           exportPath == getExportPath(build.projectRoot, platform)
       IN \E exported \in BOOLEAN :
            build' = [build EXCEPT
                        !.attempted = Append(@, platform),
                        !.outputs = Append(@, output),
                        !.exports = Append(@, exportPath),
                        !.results = Append(@, exported),
                        !.failedBuilds = IF exported THEN @ ELSE @ + 1,
                        !.i = IF exported THEN @ + 1 ELSE Len(BuildPlatforms) + 1]
    /\ UNCHANGED <<sysVars, sanVars>>

\* main, lines 92-123: one iteration of the loop over BuildPlatforms
BuildPlatform ==
    /\ build.pc = "loop"
    /\ build.i <= Len(BuildPlatforms)
    /\ LET platform == BuildPlatforms[build.i]
           output == buildOutput(platform)
           exportPath == getExportPath(build.projectRoot, platform)
       IN \E exported \in BOOLEAN :
            build' = [build EXCEPT
                        !.attempted = Append(@, platform),
                        !.outputs = Append(@, output),
                        !.exports = Append(@, exportPath),
                        !.results = Append(@, exported),
                        !.failedBuilds = IF exported THEN @ ELSE @ + 1,
                        !.i = @ + 1]
    /\ UNCHANGED <<sysVars, sanVars>>

\* main, lines 125-131: after the loop
FinishBuild ==
    /\ build.pc = "loop"
    /\ build.i > Len(BuildPlatforms)
    /\ build' = IF build.failedBuilds > 0
                THEN BuildExit(build, "failedBuilds")
                ELSE [build EXCEPT !.pc = "done", !.exitCode = 0]
    /\ UNCHANGED <<sysVars, sanVars>>

BuildNext ==
    \/ Connect
    \/ ResolveRoot
    \/ MakeOutputDir
    \/ BuildPlatform
    \/ FinishBuild

BuildSpec == BuildInit /\ [][BuildNext]_vars

(***************************************************************************)
(* Properties                                                              *)
(***************************************************************************)
FallbackPcs == {"fbExtract", "fbInfer", "fbConfirm"}
ProcessPcs ==
    {"raster", "visInfer", "visConfirm", "ocrExtract", "ocrInfer",
     "ocrConfirm", "write"} \cup FallbackPcs

\* C1: when page 1 cannot be rasterized (a vision attempt with zero pages),
\* the file goes through fallbackToOCR with exactly one extractText call, no
\* further page is requested, no vision request is sent, and a candidate name
\* can only be the clean-up of the reply to the text request built from the
\* extracted text.
C1_FallbackDeterminism ==
    (Len(cur.pagesRequested) >= 1 /\ cur.images = <<>>) =>
        /\ cur.pagesRequested = <<1>>
        /\ cur.visReqs = <<>>
        /\ cur.fellBack
        /\ pc \in FallbackPcs \cup {"write", "return"}
        /\ cur.ocrCalls = (IF pc = "fbExtract" THEN 0 ELSE 1)
        /\ Len(cur.txtReqs) <= 1
        /\ cur.nameFrom \in {"none", "text"}
        /\ cur.nameFrom = "text" =>
              /\ cur.extracted
              /\ cur.txtReqs = <<TextRequest(config, cur.text)>>
              /\ cur.newName = cleanNameText(cur.txtReply.response)

C1_Witness ==
    /\ cur.pagesRequested = <<1>>
    /\ cur.images = <<>>
    /\ cur.nameFrom = "text"
    /\ cur.newName # <<>>
    /\ cur.outcome = "Renamed"

\* the outcome of the OCR path, from what extractText, generateFilename, the
\* console and writeOutputFile returned
OcrPathOutcome(c) ==
    IF ~c.extracted THEN "Failed"
    ELSE IF generateFilename(c.txtReply).err THEN "Failed"
    ELSE IF c.answer \notin {NoAnswer, <<"y">>, <<"a">>} THEN "Kept"
    ELSE IF c.written # NoFile THEN "Renamed"
    ELSE "Failed"

\* C2: in vision mode a failed vision inference (transport error, unparsable
\* reply, error field) does not fail the file: the run enters fallbackToOCR
\* for the same file with no outcome set, and the outcome the file ends with
\* is the one the OCR path produces.
C2_VisionFailureFallsBack ==
    (Len(cur.visReqs) >= 1 /\ cur.nameFrom # "vision") =>
        /\ cur.fellBack
        /\ cur.ocrCalls = 0 =>
              (pc = "fbExtract" /\ cur.outcome = "none" /\ ~cur.err)
        /\ cur.ocrCalls > 0 => pc \in {"fbInfer", "fbConfirm", "write", "return"}
        /\ cur.outcome # "none" => cur.outcome = OcrPathOutcome(cur)

C2_Witness ==
    /\ Len(cur.visReqs) = 1
    /\ cur.fellBack
    /\ cur.ocrCalls = 1
    /\ cur.outcome = "Renamed"

\* C3: no write is attempted with an empty candidate name, and no file named
\* ".pdf" exists, beside the sources or in the output directory.
C3_NoEmptyNameWritten ==
    /\ cur.writes > 0 => cur.newName # <<>>
    /\ DotPdf \notin DOMAIN fs
    /\ JoinPath(CleanDir(OutDirArg), DotPdf) \notin DOMAIN fs

WellFormedName(n) ==
    \/ n = <<>>
    \/ /\ \A i \in 1..Len(n) : n[i] \in AllowedChars
       /\ n[1] \in AlnumChars
       /\ n[Len(n)] \in AlnumChars
       /\ \A i \in 1..(Len(n) - 1) : ~(n[i] = "-" /\ n[i + 1] = "-")
       /\ Len(n) <= MaxNameLen

\* C4: the cleaned name, as computed by generateFilename and by
\* generateFilenameFast, is empty or made of letters, digits and dashes only,
\* starts and ends with a letter or digit, has no two consecutive dashes and
\* is at most 64 characters long.
C4_SanitizationInvariants ==
    /\ sanOut.done >= 1 => WellFormedName(sanOut.text)
    /\ sanOut.done >= 2 => WellFormedName(sanOut.fast)

\* C5: cleaning a cleaned name returns it unchanged.
C5_SanitizationIdempotent ==
    sanOut.done = 3 => sanOut.again = sanOut.text

\* strings.TrimSpace, for the blanks that occur in replies
TrimSpace(s) ==
    LET keep == {i \in 1..Len(s) : s[i] # " "}
    IN IF keep = {} THEN <<>>
       ELSE LET lo == CHOOSE i \in keep : \A j \in keep : i <= j
                hi == CHOOSE i \in keep : \A j \in keep : j <= i
            IN SubSeq(s, lo, hi)

TextReplyUnusable(o) ==
    \/ o.kind \in {"transport", "unparsable"}
    \/ o.error # <<>>
    \/ TrimSpace(o.response) = <<>>

\* C6: in the OCR path (direct or fallback), a text inference that errors or
\* whose response is empty once blanks are trimmed fails the file:
\* processPDF returns an error, without a prompt and without a write.
C6_UnusableTextReplyFails ==
    (Len(cur.txtReqs) >= 1 /\ TextReplyUnusable(cur.txtReply)) =>
        /\ pc = "return"
        /\ cur.outcome = "Failed"
        /\ cur.err
        /\ cur.prompts = 0
        /\ cur.writes = 0

\* C7: when extractText fails, in processPDF's OCR branch or in
\* fallbackToOCR, the call returns at once with an error: one extractText
\* call, no text request, no prompt, no console read, no write, and neither
\* path is entered again.
C7_OcrIsTerminal ==
    (cur.ocrCalls >= 1 /\ ~cur.extracted) =>
        /\ pc = "return"
        /\ cur.outcome = "Failed"
        /\ cur.err
        /\ cur.ocrCalls = 1
        /\ cur.txtReqs = <<>>
        /\ cur.prompts = 0
        /\ cur.reads = 0
        /\ cur.writes = 0
        /\ Len(cur.visReqs) <= 1
        /\ Len(cur.pagesRequested) <= maxPages

C7_Witness ==
    /\ cur.ocrCalls = 1
    /\ ~cur.extracted
    /\ cur.fellBack
    /\ Len(cur.visReqs) = 1
    /\ cur.outcome = "Failed"

\* C8: once an earlier file of the run was answered "a", config.AutoRename
\* is set and every later file is handled without a prompt and without a
\* console read; when it gets a candidate name, on whichever path, the write
\* is attempted and the file is never kept.
C8_AutoConfirmSticky ==
    run.acceptAllBefore =>
        /\ config.AutoRename
        /\ cur.prompts = 0
        /\ cur.reads = 0
        /\ cur.answer = NoAnswer
        /\ cur.outcome # "Kept"
        /\ (pc = "return" /\ cur.nameFrom # "none") => cur.writes = 1

C8_Witness ==
    /\ run.acceptAllBefore
    /\ pc = "return"
    /\ cur.fellBack
    /\ cur.outcome = "Renamed"

C10_NoFileAfterDepFailure ==
    "deps" \in run.exitCauses =>
        /\ run.depErrors = 1
        /\ run.exitCodes = {1}
        /\ run.started = 0
        /\ pc \notin ProcessPcs

\* C11: a failed file never ends the batch: the error is reported for that
\* file, the loop goes on with the next match (every match passed was
\* processed or skipped as a non-PDF, every pattern's matches were walked to
\* the end), the process is not exited once a file was processed, and the
\* run ends with "Processing complete!" after the last pattern.
C11_BatchNeverAborts ==
    /\ run.started > 0 => pc # "exited"
    /\ pc \in {"pattern", "complete"} => matchIdx = Len(matches) + 1
    /\ pc = "complete" => (argIdx = Len(args) + 1 /\ run.completed)
    /\ pc = "match" => matchIdx <= Len(matches) + 1
    /\ (pc = "match" /\ matchIdx > 1 /\ IsPdfName(matches[matchIdx - 1])) =>
          /\ cur.file = matches[matchIdx - 1]
          /\ cur.outcome # "none"
          /\ cur.errReported = cur.err
          /\ cur.err = (cur.outcome = "Failed")

C11_Witness ==
    /\ run.failedBefore
    /\ pc = "complete"
    /\ cur.outcome = "Renamed"

\* filepath.Dir of a path with at most one separator
DirOf(p) ==
    IF HasSlash(p)
    THEN SubSeq(p, 1, (CHOOSE i \in 1..Len(p) : p[i] = "/") - 1)
    ELSE <<".">>

\* where the claim places the output of a rename of source src
ClaimedOutputPath(c, src, newName) ==
    IF c.OutputDir # <<>> THEN JoinPath(c.OutputDir, newName \o DotPdf)
    ELSE IF HasSlash(src) THEN JoinPath(DirOf(src), newName \o DotPdf)
    ELSE newName \o DotPdf

\* C12: a rename writes the unchanged content of the source to the one path
\* <candidate>.pdf, in the output directory (created if missing) when one is
\* configured and otherwise in the directory of the source file.
C12_RenameTarget ==
    (pc = "return" /\ cur.outcome = "Renamed") =>
        /\ cur.written = ClaimedOutputPath(config, cur.file, cur.newName)
        /\ cur.written \in DOMAIN fs
        /\ fs[cur.written] = fs[cur.file]
        /\ config.OutputDir # <<>> => config.OutputDir \in dirs
        /\ cur.writes = 1

\* C13: the text request sent by fallbackToOCR names gemma3:1b.
C13_FallbackUsesGemma ==
    cur.fellBack =>
        \A i \in 1..Len(cur.txtReqs) : cur.txtReqs[i].model = GemmaModel

OnlyAllowed(s) == \A i \in 1..Len(s) : s[i] \in AllowedChars

\* no leading dash, no trailing dash, no two dashes in a row
NoDashToRemove(s) ==
    /\ Len(s) > 0 => (s[1] # "-" /\ s[Len(s)] # "-")
    /\ \A i \in 1..(Len(s) - 1) : ~(s[i] = "-" /\ s[i + 1] = "-")

KeepsFirst64(name, response) ==
    /\ Len(name) = MaxNameLen
    /\ name = SubSeq(response, 1, MaxNameLen)

WordStarts(s) ==
    {i \in 1..Len(s) : s[i] \in AlnumChars /\ (i = 1 \/ s[i - 1] \notin AlnumChars)}

WordEnd(s, i) ==
    LET ends == {j \in i..Len(s) :
                    s[j] \in AlnumChars /\ (j = Len(s) \/ s[j + 1] \notin AlnumChars)}
    IN CHOOSE j \in ends : \A k \in ends : j <= k

RECURSIVE JoinWords(_, _)
JoinWords(s, starts) ==
    IF starts = {} THEN <<>>
    ELSE LET i == CHOOSE x \in starts : \A y \in starts : x <= y
             word == SubSeq(s, i, WordEnd(s, i))
             rest == starts \ {i}
         IN IF rest = {} THEN word
            ELSE word \o <<"-">> \o JoinWords(s, rest)

ExpectedName(s) ==
    LET joined == JoinWords(s, WordStarts(s))
    IN SubSeq(joined, 1, IF Len(joined) < MaxNameLen THEN Len(joined) ELSE MaxNameLen)

\* "Invoice-2024-05-ACME-Corp"
InvoiceName ==
    <<"I", "n", "v", "o", "i", "c", "e", "-", "2", "0", "2", "4", "-", "0",
      "5", "-", "A", "C", "M", "E", "-", "C", "o", "r", "p">>

\* C15: for every reply the candidate is the reply with the characters
\* outside [A-Za-z0-9-] replaced by dashes, dash runs collapsed, leading and
\* trailing dashes stripped and the first 64 characters kept, in this order;
\* "  Invoice #2024/05: ACME   Corp!!  " gives "Invoice-2024-05-ACME-Corp";
\* the text clean-up and the vision clean-up give the same candidate.
C15_SanitizerSteps ==
    sanOut.done >= 2 =>
        /\ sanOut.text = ExpectedName(sanIn)
        /\ sanOut.fast = sanOut.text
        /\ sanIn = InvoiceReply => sanOut.text = InvoiceName

C15_Witness ==
    /\ sanOut.done >= 2
    /\ sanIn = InvoiceReply
    /\ sanOut.text = InvoiceName
    /\ sanOut.fast = InvoiceName

ConsentInputs == {<<"y">>, <<"a">>}

\* C16: a console input other than "y" and "a" (the empty input of a failed
\* read included) declines: the file is Kept, writeOutputFile is not called,
\* AutoRename stays false and no error is returned or reported.
C16_DeclineKeepsFile ==
    (cur.answer # NoAnswer /\ cur.answer \notin ConsentInputs) =>
        /\ cur.outcome = "Kept"
        /\ cur.writes = 0
        /\ cur.written = NoFile
        /\ ~cur.err
        /\ ~cur.errReported
        /\ ~config.AutoRename
        /\ pc \notin ProcessPcs

C16_Witness ==
    /\ pc = "return"
    /\ cur.reads = 1
    /\ cur.answer = <<>>
    /\ cur.outcome = "Kept"

\* C17: a file that has a candidate while AutoRename is true, by -auto or
\* by an earlier "a", was not prompted and nothing was read for it, it is
\* never Kept and writeOutputFile is called for it; the only read a run with
\* AutoRename true can show is the "a" that set it.
C17_AutoConfirmSkipsPrompt ==
    /\ (config.AutoRename /\ cur.answer # NoAnswer) => cur.answer = <<"a">>
    /\ (config.AutoRename /\ cur.answer = NoAnswer /\ cur.nameFrom # "none") =>
          /\ cur.prompts = 0
          /\ cur.reads = 0
          /\ cur.outcome # "Kept"
          /\ pc \in {"visConfirm", "ocrConfirm", "fbConfirm", "write", "return"}
          /\ pc = "return" => (cur.writes = 1 /\ cur.outcome \in {"Renamed", "Failed"})

C17_Witness ==
    /\ config.AutoRename
    /\ run.acceptAllBefore
    /\ cur.answer = NoAnswer
    /\ cur.fellBack
    /\ pc = "return"
    /\ cur.reads = 0
    /\ cur.writes = 1
    /\ cur.outcome = "Renamed"

\* C18: with vision disabled a file starts with extractText: no page is
\* rasterized, no request carries images, no fallback is entered and the
\* candidate can only come from the text request.
C18_NoVisionGoesToOcr ==
    ~cfg.FastMode =>
        /\ pc \notin ({"raster", "visInfer", "visConfirm"} \cup FallbackPcs)
        /\ cur.pagesRequested = <<>>
        /\ cur.images = <<>>
        /\ cur.visReqs = <<>>
        /\ ~cur.fellBack
        /\ cur.nameFrom \in {"none", "text"}
        /\ \A i \in 1..Len(cur.txtReqs) : cur.txtReqs[i].images = <<>>
        /\ pc \in {"ocrInfer", "ocrConfirm"} => cur.ocrCalls = 1

C18_Witness ==
    /\ ~cfg.FastMode
    /\ pc = "return"
    /\ cur.ocrCalls = 1
    /\ Len(cur.txtReqs) = 1
    /\ cur.outcome = "Renamed"

\* C19: with -novision the model of the global config is the supplied one,
\* for every supplied model: it is the model looked up by the dependency
\* check and the model of every request.
C19_NoVisionKeepsModel ==
    (~cfg.FastMode /\ run.supplied # "none") =>
        /\ cfg.Model = run.supplied
        /\ config.Model = run.supplied
        /\ ~config.FastMode
        /\ run.checkedModel \in {"none", run.supplied}
        /\ \A i \in 1..Len(cur.txtReqs) : cur.txtReqs[i].model = run.supplied

C19_Witness ==
    /\ ~cfg.FastMode
    /\ run.supplied = GemmaModel
    /\ config.Model = GemmaModel
    /\ run.checkedModel = GemmaModel
    /\ Len(cur.txtReqs) = 1

\* what every Exit call of a run shows, whatever its cause
ExitCallsJustified ==
    /\ run.exitCodes \subseteq {1}
    /\ "flag" \in run.exitCauses =>
          \E i \in 1..Len(args) : HasPrefix(args[i], NoVisionPrefix)
    /\ "deps" \in run.exitCauses => checkDependencies(env, config.Model) # "ok"
    /\ "usage" \in run.exitCauses => Len(args) = 0
    /\ pc = "exited" => (run.started = 0 /\ run.exitCalls = 1 /\ ~run.completed)
    /\ (run.started > 0 /\ ~ExitReturns(cfg)) => run.exitCalls = 0

\* C20 as stated: Exit is invoked only for a failed dependency check (tool,
\* service or model) or for zero arguments, with code 1, and never once a
\* file is processed.
C20_ExitCauses ==
    /\ run.exitCauses \subseteq {"deps", "usage"}
    /\ ExitCallsJustified

\* Exit is not called by a step taken after the first processPDF call
NoExitOnceStarted == run.started > 0 => run'.exitCalls = run.exitCalls

\* C20 (amended): Exit is invoked only for a positional argument starting
\* with -novision=, a failed dependency check (tool, service or model) or
\* zero arguments, each with code 1; it is never invoked because of a file's
\* error or once a file is processed, so a process that processes files does
\* not end through Exit.
C20_ExitCausesWithFlagMisuse ==
    /\ [](run.exitCauses \subseteq {"flag", "deps", "usage"} /\ ExitCallsJustified)
    /\ [][NoExitOnceStarted]_vars

C20_Witness ==
    /\ pc = "exited"
    /\ run.exitCauses = {"flag"}
    /\ run.exitCodes = {1}
    /\ run.started = 0

\* the last four characters are ".pdf" in any mix of cases
EndsInPdf(f) ==
    LET n == Len(f)
    IN /\ n >= 4
       /\ f[n - 3] = "."
       /\ f[n - 2] \in {"p", "P"}
       /\ f[n - 1] \in {"d", "D"}
       /\ f[n] \in {"f", "F"}

\* C21: a match whose name does not end in ".pdf" (in any case) is skipped:
\* the file in processPDF is always the current match and ends in ".pdf",
\* and every match passed without a processPDF call was printed as skipped;
\* a pattern naming a file that does not exist has no match, so nothing is
\* processed for it.
C21_NonPdfSkipped ==
    /\ pc \in (ProcessPcs \cup {"return"}) =>
          /\ matchIdx \in 1..Len(matches)
          /\ cur.file = matches[matchIdx]
          /\ EndsInPdf(cur.file)
    /\ cur.file # NoFile => EndsInPdf(cur.file)
    /\ (pc \in {"match", "return"} \cup ProcessPcs /\ args[argIdx] = PatMissing) =>
          matches = <<>>
    /\ (\A i \in 1..Len(args) : args[i] = PatMissing) => run.started = 0
    /\ pc = "complete" =>
          (run.started = 0 <=>
              \A i \in 1..Len(args) :
                 args[i] \in {PatMissing, PatBad, PatNoVision})

C21_Witness ==
    /\ pc = "complete"
    /\ run.skipped = 2
    /\ run.started = 2
    /\ cur.file # FileN

C21_WitnessMissing ==
    /\ pc = "complete"
    /\ args = <<PatMissing>>
    /\ run.started = 0
    /\ run.skipped = 0

\* C22: a command line without flags gives the default configuration:
\* AutoRename false, the default prompt, vision enabled, model qwen2.5vl:7b;
\* for every command line FastMode is the negation of the -novision switch,
\* in cfg and in the global config setup assigns from it.
C22_DefaultsAndNoVision ==
    run.parsed =>
        /\ cfg.FastMode = ~run.flags.novision
        /\ config # ZeroConfig => config.FastMode = ~run.flags.novision
        /\ run.flags = NoFlags =>
              /\ cfg.AutoRename = FALSE
              /\ cfg.CustomPrompt = defaultPrompt
              /\ cfg.FastMode = TRUE
              /\ cfg.Model = "qwen2.5vl:7b"

C22_Witness ==
    /\ run.parsed
    /\ run.flags.novision
    /\ config # ZeroConfig
    /\ ~config.FastMode
    /\ pc = "ocrInfer"

C22_WitnessDefaults ==
    /\ run.parsed
    /\ run.flags = NoFlags
    /\ cfg = getDefaultConfig
    /\ pc = "raster"

AllPlatformsAttempted == build.attempted = BuildPlatforms

\* the platforms are attempted in list order, whatever the earlier results
AttemptedInOrder ==
    /\ Len(build.attempted) <= Len(BuildPlatforms)
    /\ \A k \in 1..Len(build.attempted) : build.attempted[k] = BuildPlatforms[k]
    /\ Len(build.results) = Len(build.attempted)

SomeExportFailed == \E k \in 1..Len(build.results) : ~build.results[k]

\* C23 as stated: every platform is attempted in list order even after a
\* failed export, and the process exits with code 1 if and only if at least
\* one export failed, after all platforms were attempted; otherwise it
\* completes successfully.
C23_BuildExitCode ==
    /\ AttemptedInOrder
    /\ build.exitCode = 1 <=> (AllPlatformsAttempted /\ SomeExportFailed /\ build.pc = "exited")
    /\ build.pc = "done" => (AllPlatformsAttempted /\ ~SomeExportFailed /\ build.exitCode = 0)
    /\ build.pc = "exited" => build.exitCode = 1

\* C23 (amended): once the client is connected and the project root and the
\* output directory are set up, every platform is attempted in list order
\* even after a failed export, and the process then exits with code 1 if and
\* only if at least one export failed, and completes successfully otherwise;
\* a failure of that set-up exits with code 1 before any platform is
\* attempted.
C23_BuildExitCodeAfterSetup ==
    /\ AttemptedInOrder
    /\ build.pc = "exited" =>
          /\ build.exitCode = 1
          /\ \/ /\ build.exitCause \in {"connect", "abs", "outdir"}
                /\ build.attempted = <<>>
             \/ /\ build.exitCause = "failedBuilds"
                /\ AllPlatformsAttempted
                /\ SomeExportFailed
    /\ build.pc = "done" =>
          (AllPlatformsAttempted /\ ~SomeExportFailed /\ build.exitCode = 0)
    /\ build.exitCode = 1 => build.pc = "exited"
    /\ (build.pc = "loop" /\ build.i > Len(BuildPlatforms)) => AllPlatformsAttempted
    /\ build.pc \in {"loop", "done", "exited"} /\ build.exitCause \notin {"connect", "abs", "outdir"} =>
          build.i = Len(build.attempted) + 1

C23_Witness ==
    /\ build.pc = "exited"
    /\ build.exitCause = "failedBuilds"
    /\ build.results = <<FALSE, TRUE, TRUE, FALSE, TRUE>>

\* C24: for every project root and platform the export path is
\* <projectRoot>/build/ai-pdf-renamer-<os>-<arch>, with ".exe" appended if
\* and only if the os is windows, and its file name is the output name the
\* loop passed to the compiler for that platform.
C24_ExportPath ==
    \A k \in 1..Len(build.exports) :
        LET platform == BuildPlatforms[k]
            plain == build.projectRoot \o <<"/", "b", "u", "i", "l", "d", "/">>
                       \o <<"a", "i", "-", "p", "d", "f", "-", "r", "e", "n",
                            "a", "m", "e", "r", "-">>
                       \o platform.os \o <<"-">> \o platform.arch
        IN /\ build.exports[k] =
                 IF platform.os = <<"w", "i", "n", "d", "o", "w", "s">>
                 THEN plain \o <<".", "e", "x", "e">> ELSE plain
           /\ HasSuffix(build.exports[k], <<".", "e", "x", "e">>) <=> k = 5
           /\ build.exports[k] = build.projectRoot \o <<"/">> \o build.outputs[k]

C24_Witness ==
    /\ Len(build.exports) = Len(BuildPlatforms)
    /\ build.projectRoot = <<"/", "w", "/", "q">>
    /\ HasSuffix(build.exports[5], <<"a", "m", "d", "6", "4", ".", "e", "x", "e">>)
    /\ ~HasSuffix(build.exports[1], <<".", "e", "x", "e">>)

\* <<1, ..., n>>
PagesUpTo(n) == [p \in 1..n |-> p]

\* C25: in a vision attempt the pages are requested in ascending order from
\* page 1, at most 3 of them, none after the first page that fails, and the
\* images of the request are the rasterized pages in that order: at least
\* one, at most 3.
C25_PageOrder ==
    /\ Len(cur.pagesRequested) <= 3
    /\ cur.pagesRequested = PagesUpTo(Len(cur.pagesRequested))
    /\ cur.images = PagesUpTo(Len(cur.images))
    /\ Len(cur.images) \in {Len(cur.pagesRequested), Len(cur.pagesRequested) - 1}
    /\ Len(cur.images) < Len(cur.pagesRequested) => pc # "raster"
    /\ pc = "raster" => Len(cur.pagesRequested) < 3
    /\ Len(cur.visReqs) <= 1
    /\ \A i \in 1..Len(cur.visReqs) :
          /\ cur.visReqs[i].images = cur.images
          /\ Len(cur.visReqs[i].images) \in 1..3
          /\ \A j \in 1..Len(cur.visReqs[i].images) : cur.visReqs[i].images[j] = j

C25_Witness ==
    /\ Len(cur.visReqs) = 1
    /\ cur.pagesRequested = <<1, 2, 3>>
    /\ cur.visReqs[1].images = <<1, 2>>

\* a page after the first could not be rasterized
LaterPageFailed ==
    /\ Len(cur.images) >= 1
    /\ Len(cur.pagesRequested) = Len(cur.images) + 1

\* C26: when page 2 or 3 cannot be rasterized after a rasterized page, the
\* vision attempt goes on to the inference request with the pages it has;
\* a fallback can then only come from the inference call.
C26_LaterPageFailureIsNoError ==
    LaterPageFailed =>
        /\ pc # "raster"
        /\ pc = "visInfer" => (cur.visReqs = <<>> /\ ~cur.fellBack /\ ~cur.err)
        /\ pc # "visInfer" =>
              (Len(cur.visReqs) = 1 /\ cur.visReqs[1].images = cur.images)
        /\ pc = "fbExtract" => generateFilenameFast(cur.images, cur.visReply).err
        /\ cur.fellBack => Len(cur.visReqs) = 1
        /\ ~cur.fellBack => cur.ocrCalls = 0

C26_Witness ==
    /\ LaterPageFailed
    /\ cur.images = <<1>>
    /\ pc = "visConfirm"
    /\ ~cur.fellBack
    /\ cur.nameFrom = "vision"

EmptyReply(r) == r.kind = "reply" /\ r.response = <<>> /\ r.error = <<>>

\* C27: a vision reply with an empty response and no error is no failure:
\* no fallback, and the file goes to the confirmation with the empty
\* candidate; the same reply to the text request fails the file.
C27_VisionEmptyReplyAccepted ==
    /\ EmptyReply(cur.visReply) =>
          /\ ~cur.fellBack
          /\ cur.ocrCalls = 0
          /\ cur.nameFrom = "vision"
          /\ cur.newName = <<>>
          /\ pc \in {"visConfirm", "write", "return"}
          /\ pc = "return" => (cur.prompts = 1 \/ config.AutoRename)
    /\ EmptyReply(cur.txtReply) =>
          /\ pc = "return"
          /\ cur.outcome = "Failed"
          /\ cur.err
          /\ cur.nameFrom = "none"
          /\ cur.prompts = 0
          /\ cur.writes = 0

C27_Witness ==
    /\ EmptyReply(cur.visReply)
    /\ pc = "visConfirm"
    /\ cur.newName = <<>>
    /\ ~cur.fellBack

\* C28: a reply with a non-empty error field never names the file, whatever
\* its response: the vision call fails (the fallback is entered with no
\* candidate) and the text call fails the file with no prompt and no write.
C28_ErrorReplyNeverUsed ==
    /\ cur.visReply.error # <<>> =>
          /\ pc = "fbExtract"
          /\ cur.fellBack
          /\ cur.nameFrom = "none"
          /\ cur.newName = <<>>
    /\ cur.txtReply.error # <<>> =>
          /\ pc = "return"
          /\ cur.outcome = "Failed"
          /\ cur.err
          /\ cur.nameFrom \in {"none"}
          /\ cur.newName = <<>>
          /\ cur.prompts = 0
          /\ cur.writes = 0
    /\ cur.nameFrom = "vision" => cur.visReply.error = <<>>
    /\ cur.nameFrom = "text" => cur.txtReply.error = <<>>

C28_Witness ==
    /\ cur.txtReply.error # <<>>
    /\ cur.txtReply.response = <<"a", " ", "b">>
    /\ cur.fellBack
    /\ cur.outcome = "Failed"

ConfirmPcs == {"visConfirm", "ocrConfirm", "fbConfirm"}

\* config.AutoRename changes only from false to true, in a confirmation
\* step whose answer is "a"
AutoRenameStep ==
    (pc \notin {"main", "setup"} /\ config'.AutoRename # config.AutoRename) =>
        /\ ~config.AutoRename
        /\ config'.AutoRename
        /\ pc \in ConfirmPcs
        /\ cur'.answer = <<"a">>

\* C29: config.AutoRename starts at the configured value, its only change
\* is from false to true by an "a" answer, and once true it stays true for
\* the rest of the run, whatever fails later.
C29_AutoRenameMonotonic ==
    /\ [][AutoRenameStep]_vars
    /\ [][pc = "setup" /\ pc' = "deps" => config'.AutoRename = cfg.AutoRename]_vars
    /\ [](config.AutoRename =>
            (cfg.AutoRename \/ run.acceptAllBefore \/ cur.answer = <<"a">>))

C29_Witness ==
    /\ ~cfg.AutoRename
    /\ config.AutoRename
    /\ run.acceptAllBefore
    /\ run.failedBefore
    /\ cur.outcome = "Failed"
    /\ pc = "complete"

\* what a consenting answer leads to: the write of the candidate
ConsentWrites ==
    /\ pc \in {"write", "return", "match", "pattern", "complete"}
    /\ cur.outcome # "Kept"
    /\ pc = "write" => cur.writes = 0
    /\ pc = "return" =>
          /\ cur.writes = 1
          /\ cur.outcome \in {"Renamed", "Failed"}
          /\ cur.outcome = "Renamed" =>
                /\ cur.written = OutputPath(config, cur.newName)
                /\ fs[cur.written] = fs[cur.file]

\* C30: the answer "a" writes the current file under its candidate name as
\* the answer "y" does and sets config.AutoRename, in the vision, the
\* OCR-only and the fallback confirmation alike.
C30_AcceptAllBothEffects ==
    /\ cur.answer = <<"y">> => ConsentWrites
    /\ cur.answer = <<"a">> => (ConsentWrites /\ config.AutoRename)

C30_Witness ==
    /\ cur.answer = <<"a">>
    /\ cur.fellBack
    /\ pc = "return"
    /\ cur.outcome = "Renamed"
    /\ config.AutoRename
    /\ ~cfg.AutoRename

\* the source PDF of the file in progress was rewritten by ocrmypdf
SourceRewritten == fs[cur.file].ocr

\* C31: on the OCR path, direct or fallback, the source PDF has been
\* rewritten in place when the text request is sent and when the
\* confirmation is reached, so it is rewritten for every file that is then
\* Kept or fails in the inference call.
C31_RewriteBeforeInference ==
    /\ pc \in {"ocrInfer", "fbInfer", "ocrConfirm", "fbConfirm"} => SourceRewritten
    /\ (pc \in ProcessPcs \cup {"return"} /\ cur.extracted) => SourceRewritten
    /\ (pc \in ProcessPcs \cup {"return"} /\ Len(cur.txtReqs) > 0) =>
          (cur.extracted /\ SourceRewritten)
    /\ (pc = "return" /\ cur.outcome = "Kept" /\ cur.nameFrom = "text") => SourceRewritten
    /\ (pc = "return" /\ cur.outcome = "Failed" /\ cur.txtReply.kind # "none") =>
          SourceRewritten

C31_Witness ==
    /\ pc = "return"
    /\ cur.outcome = "Kept"
    /\ cur.fellBack
    /\ cur.nameFrom = "text"
    /\ SourceRewritten

TerminalOutcomes == {"Renamed", "Kept", "Failed"}

\* a file is in a terminal state when processPDF has returned, and only then
OutcomeWhenReturned ==
    /\ pc \in ProcessPcs => cur.outcome = "none"
    /\ pc = "return" => cur.outcome \in TerminalOutcomes
    /\ (pc \in {"match", "pattern", "complete"} /\ run.started > 0) =>
          cur.outcome \in TerminalOutcomes
    /\ pc = "exited" => run.started = 0

\* the terminal state of a file does not change; a new file starts only
\* from the loop of setup
OutcomeKept ==
    cur.outcome # "none" =>
        \/ cur'.outcome = cur.outcome /\ cur'.file = cur.file
        \/ pc = "match" /\ cur' = NewCur(matches[matchIdx])

\* C32: when every collaborator call and console read returns, the run
\* ends; every PDF processed is in exactly one of Renamed, Kept, Failed
\* before the next one starts, and none is without a terminal state at the
\* end.
C32_RunTerminates ==
    /\ <>(pc \in {"complete", "exited"})
    /\ []OutcomeWhenReturned
    /\ [][OutcomeKept]_vars

C32_Witness ==
    /\ pc = "complete"
    /\ run.started = 2
    /\ run.failedBefore
    /\ cur.outcome = "Kept"

\* the steps of a file that is declined after a successful vision request:
\* the start of processPDF, the rasterization, the request, the confirmation
VisionStepKeepsFiles ==
    pc \in {"match", "raster", "visInfer", "visConfirm"} =>
        (fs' = fs /\ dirs' = dirs)

\* C33: when the vision request of a file succeeds, extractText is not
\* called for it and the source PDF is as it was; if the answer is then a
\* decline, no step taken for the file has changed a file or a directory.
C33_VisionSuccessKeepsSource ==
    /\ [](cur.nameFrom = "vision" =>
            /\ cur.ocrCalls = 0
            /\ ~cur.fellBack
            /\ cur.txtReqs = <<>>
            /\ cur.file \in DOMAIN fs
            /\ cur.outcome = "Kept" =>
                  (pc = "return" /\ cur.writes = 0 /\ cur.written = NoFile))
    /\ [][VisionStepKeepsFiles]_vars

C33_Witness ==
    /\ pc = "return"
    /\ cur.nameFrom = "vision"
    /\ cur.outcome = "Kept"
    /\ cur.answer = <<"n">>
    /\ fs = InitFiles
    /\ dirs = {DirD}

\* the request that gave the candidate of the file was sent once and has
\* returned no error (generateFilenameFast, lines 280-282 and 309-327;
\* generateFilename, lines 243-260)
ReplySucceeded ==
    /\ cur.nameFrom \in {"vision", "text"}
    /\ cur.nameFrom = "vision" =>
          /\ Len(cur.visReqs) = 1
          /\ cur.images # <<>>
          /\ cur.visReply.kind = "reply"
          /\ cur.visReply.error = <<>>
    /\ cur.nameFrom = "text" =>
          /\ Len(cur.txtReqs) = 1
          /\ cur.txtReply.kind = "reply"
          /\ cur.txtReply.error = <<>>
          /\ cur.txtReply.response # <<>>

\* the write was consented to: by the answer read for the file, or by
\* config.AutoRename without a read
WriteConsented ==
    IF cur.reads = 0
    THEN config.AutoRename /\ cur.answer = NoAnswer
    ELSE cur.answer \in {<<"y">>, <<"a">>}

\* C34: a file has at most one console read and at most one call of
\* writeOutputFile; the call is made only with a candidate of a successful
\* request of the file, and with config.AutoRename set or the answer y or a.
C34_OneReadOneWrite ==
    /\ cur.reads <= 1
    /\ cur.prompts = cur.reads
    /\ cur.writes <= 1
    /\ (pc = "write" \/ cur.writes > 0) => (ReplySucceeded /\ WriteConsented)
    /\ (pc = "return" /\ cur.outcome = "Renamed") => cur.writes = 1

C34_Witness ==
    /\ pc = "return"
    /\ cur.reads = 1
    /\ cur.writes = 1
    /\ cur.answer = <<"y">>
    /\ cur.nameFrom = "text"
    /\ cur.fellBack
    /\ ~config.AutoRename

\* the vision attempt of the file has failed: no page was rasterized, or the
\* vision request returned an error
VisionAttemptFailed ==
    \/ cur.images = <<>> /\ cur.visReqs = <<>>
    \/ Len(cur.visReqs) = 1 /\ generateFilenameFast(cur.images, cur.visReply).err

\* C35: a file has at most one vision request and at most one text request;
\* in vision mode the text request is sent only after the vision attempt of
\* the file has failed, and no request is sent a second time.
C35_NoRepeatedRequest ==
    /\ Len(cur.visReqs) <= 1
    /\ Len(cur.txtReqs) <= 1
    /\ cur.visReqs # <<>> => config.FastMode
    /\ (cur.txtReqs # <<>> /\ config.FastMode) => cur.fellBack
    /\ pc \in FallbackPcs => cur.fellBack
    /\ cur.fellBack => (config.FastMode /\ cur.nameFrom # "vision")
    /\ pc = "fbExtract" => VisionAttemptFailed
    /\ pc = "visConfirm" => (cur.txtReqs = <<>> /\ ~cur.fellBack)

C35_Witness ==
    /\ pc = "return"
    /\ Len(cur.visReqs) = 1
    /\ Len(cur.txtReqs) = 1
    /\ cur.fellBack
    /\ cur.outcome = "Renamed"

\* the files that renames of this run have written: the sources are never
\* removed and the sidecar files are, so every path that was not there at the
\* start is the output of an earlier rename
EarlierOutputs == (DOMAIN fs) \ (DOMAIN InitFiles)

\* a successful writeOutputFile step leaves the outputs of the renames of
\* other source files as they were
RenameKeepsEarlierOutputs ==
    (pc = "write" /\ cur'.outcome = "Renamed") =>
        \A p \in EarlierOutputs :
            fs[p].id # fs[cur.file].id => fs'[p] = fs[p]

\* C36: a rename never overwrites the output of an earlier rename of another
\* source file of the run, also when both files get the same candidate.
C36_RenameKeepsEarlierOutputs == [][RenameKeepsEarlierOutputs]_vars

\* the requests sent for the current file
RequestsOfFile ==
    {cur.visReqs[i] : i \in 1..Len(cur.visReqs)} \cup
    {cur.txtReqs[i] : i \in 1..Len(cur.txtReqs)}

\* checkDependencies has looked the model up and found it installed
ModelVerified(m) ==
    /\ run.checkedModel = m
    /\ m \in env.installed
    /\ "deps" \notin run.exitCauses

\* C37: every request of the run, vision, OCR-only or fallback, names the
\* model that checkDependencies has verified as installed at startup.
C37_RequestsNameVerifiedModel ==
    \A r \in RequestsOfFile : ModelVerified(r.model)

====
